---- MODULE Spec2Model ----
(***************************************************************************)
(* A model of dockstring/utils.py: the molecule-preparation checks, the    *)
(* force-field fallback, the external-process adapters and the two regular *)
(* expression parsers.  Every function of the module is one action (the    *)
(* line loop of parse_search_box_conf is one action per line read); the    *)
(* toolkit (RDKit) and the external binaries are the environment, and what *)
(* they answer is drawn with \E from small sets.                           *)
(***************************************************************************)
EXTENDS Integers, Sequences, FiniteSets, TLC

VARIABLES
    logEnabled,   \* rdBase log channels: channel name -> enabled
    pc,           \* "idle", "conf_loop" (inside parse_search_box_conf) or "returned"
    op,           \* the function called last
    arg,          \* its arguments and what the environment answered
    outcome,      \* "none", "running", "ok" or the exception raised
    message,      \* the exception's message
    result,       \* the value returned
    events,       \* the toolkit / logging calls the function made, in order
    d,            \* parse_search_box_conf: the dict d
    want,         \* the mapping the lines written as `key = value` spell out
    matched       \* the keys of the lines conf_re matched; whether one came twice

vars == <<logEnabled, pc, op, arg, outcome, message, result, events, d, want, matched>>

None == [none |-> TRUE]

Ev(call, ret) == [call |-> call, ret |-> ret]

Msg(text) == [text |-> text]

NoMsg == Msg("none")

(***************************************************************************)
(* Molecules.  A molecule is its atoms (atomic numbers, in atom order),    *)
(* its bonds (unordered pairs of atom indices) and its conformer count.    *)
(***************************************************************************)
MaxAtoms == 2

Elements == {0, 1, 6}

Pairs(n) == {{i, j} : i, j \in 1..n} \ {{i} : i \in 1..n}

MolsOfSize(n) ==
    {[atoms |-> a, bonds |-> b, confs |-> 0] : a \in [1..n -> Elements], b \in SUBSET Pairs(n)}

Mols == UNION {MolsOfSize(n) : n \in 0..MaxAtoms}

GetNumAtoms(mol) == Len(mol.atoms)

RECURSIVE Connected(_, _)
Connected(mol, S) ==
    LET T == S \cup {j \in 1..GetNumAtoms(mol) : \E i \in S : {i, j} \in mol.bonds}
    IN  IF T = S THEN S ELSE Connected(mol, T)

\* Chem.GetMolFrags: the connected components of the bond graph
GetMolFrags(mol) == {Connected(mol, {i}) : i \in 1..GetNumAtoms(mol)}

Renumberings(n) == {p \in [1..n -> 1..n] : \A i, j \in 1..n : p[i] = p[j] => i = j}

Renumber(mol, p) ==
    [atoms |-> [i \in 1..GetNumAtoms(mol) |-> mol.atoms[p[i]]],
     bonds |-> {{i, j} : <<i, j>> \in {q \in (1..GetNumAtoms(mol)) \X (1..GetNumAtoms(mol)) :
                                        {p[q[1]], p[q[2]]} \in mol.bonds /\ q[1] # q[2]}},
     confs |-> mol.confs]

\* Chem.MolToSmiles: the canonical SMILES, one text for every atom numbering
\* of the same graph (here: the class of all renumberings, conformers dropped)
MolToSmiles(mol) ==
    {[atoms |-> Renumber(mol, p).atoms, bonds |-> Renumber(mol, p).bonds] :
        p \in Renumberings(GetNumAtoms(mol))}

(***************************************************************************)
(* State after import: every log channel enabled, nothing called yet.      *)
(***************************************************************************)
Channels == {"rdApp.error", "rdApp.info", "rdApp.warning"}

DisableLog(log, channel) == [log EXCEPT ![channel] = FALSE]
EnableLog(log, channel) == [log EXCEPT ![channel] = TRUE]

EmptyDict == [k \in {} |-> 0]

NoneMatched == [keys |-> {}, repeated |-> FALSE]

Init ==
    /\ logEnabled = [c \in Channels |-> TRUE]
    /\ pc = "idle"
    /\ op = "none"
    /\ arg = None
    /\ outcome = "none"
    /\ message = NoMsg
    /\ result = None
    /\ events = <<>>
    /\ d = EmptyDict
    /\ want = EmptyDict
    /\ matched = NoneMatched

\* the locals of parse_search_box_conf do not outlive the call
NoConf == d' = EmptyDict /\ want' = EmptyDict /\ matched' = NoneMatched

\* what a finished call leaves behind
Returns(name, a, out, msg, res, evs) ==
    /\ pc' = "returned"
    /\ op' = name
    /\ arg' = a
    /\ outcome' = out
    /\ message' = msg
    /\ result' = res
    /\ events' = evs

(***************************************************************************)
(* smiles_to_mol, sanitize_mol, assign_bond_orders: the calls that switch  *)
(* a log channel off and on.                                               *)
(***************************************************************************)
Smiles == {"C", "CC", "C.C", "C(", "C1"}

\* Chem.MolFromSmiles(smiles, sanitize=True): the molecule, or None
MolFromSmiles(smiles) ==
    CASE smiles = "C"   -> [atoms |-> <<6>>, bonds |-> {}, confs |-> 0]
      [] smiles = "CC"  -> [atoms |-> <<6, 6>>, bonds |-> {{1, 2}}, confs |-> 0]
      [] smiles = "C.C" -> [atoms |-> <<6, 6>>, bonds |-> {}, confs |-> 0]
      [] OTHER          -> None

smiles_to_mol ==
    /\ pc = "idle"
    /\ \E smiles \in Smiles, verbose \in BOOLEAN :
        LET log1 == IF ~verbose THEN DisableLog(logEnabled, "rdApp.error") ELSE logEnabled
            mol  == MolFromSmiles(smiles)
            a    == [smiles |-> smiles, verbose |-> verbose]
        IN  IF mol = None
            THEN /\ logEnabled' = log1
                 /\ Returns("smiles_to_mol", a, "DockingError",
                            Msg("Could not parse SMILES string"), None, <<>>)
            ELSE /\ logEnabled' = IF ~verbose THEN EnableLog(log1, "rdApp.error") ELSE log1
                 /\ Returns("smiles_to_mol", a, "ok", NoMsg, mol, <<>>)
    /\ NoConf

sanitize_mol ==
    /\ pc = "idle"
    /\ \E mol \in Mols, verbose \in BOOLEAN :
        LET log1 == IF ~verbose THEN DisableLog(logEnabled, "rdApp.info") ELSE logEnabled
        IN  /\ logEnabled' = IF ~verbose THEN EnableLog(log1, "rdApp.info") ELSE log1
            /\ Returns("sanitize_mol", [mol |-> mol, verbose |-> verbose], "ok", NoMsg,
                       mol, <<Ev("uncharge", "ok")>>)
    /\ NoConf

\* what Chem.AssignBondOrdersFromTemplate does: returns, or raises one of these
TemplateAnswers == {"ok", "ValueError", "AtomValenceException"}

assign_bond_orders ==
    /\ pc = "idle"
    /\ \E subject \in Mols, answer \in TemplateAnswers, verbose \in BOOLEAN :
        LET log1 == IF ~verbose THEN DisableLog(logEnabled, "rdApp.warning") ELSE logEnabled
            a    == [subject |-> subject, answer |-> answer, verbose |-> verbose]
            evs  == <<Ev("AssignBondOrdersFromTemplate", answer)>>
        IN  IF answer # "ok"
            THEN /\ logEnabled' = log1
                 /\ Returns("assign_bond_orders", a, "DockingError",
                            Msg("Could not assign bond orders"), None, evs)
            ELSE /\ logEnabled' = IF ~verbose THEN EnableLog(log1, "rdApp.warning") ELSE log1
                 /\ Returns("assign_bond_orders", a, "ok", NoMsg, subject, evs)
    /\ NoConf

(***************************************************************************)
(* check_mol                                                               *)
(***************************************************************************)
check_mol ==
    /\ pc = "idle"
    /\ \E mol \in Mols :
        LET no_hs     == \A i \in 1..GetNumAtoms(mol) : mol.atoms[i] # 0
            fragments == GetMolFrags(mol)
            a         == [mol |-> mol]
        IN  IF ~no_hs
            THEN Returns("check_mol", a, "DockingError",
                         Msg("Cannot process molecule: hydrogen atoms couldn't be removed"),
                         None, <<>>)
            ELSE IF Cardinality(fragments) # 1
            THEN Returns("check_mol", a, "DockingError",
                         [text |-> "Incorrect number of molecular fragments",
                          count |-> Cardinality(fragments)],
                         None, <<>>)
            ELSE Returns("check_mol", a, "ok", NoMsg, None, <<>>)
    /\ UNCHANGED logEnabled
    /\ NoConf

(***************************************************************************)
(* embed_mol.  The toolkit's part: AddHs adds `hs` hydrogen atoms, and     *)
(* EmbedMolecule finds coordinates at attempt number `needed` (0: at no    *)
(* attempt), which it reaches only if maxAttempts allows it.               *)
(***************************************************************************)
MaxHs == 1
MaxFactor == 2
Seeds == {0, 1}

\* the molecules smiles_to_mol returns
ParsedMols == {MolFromSmiles(smiles) : smiles \in Smiles} \ {None}

AddHs(mol, hs) ==
    [mol EXCEPT !.atoms = mol.atoms \o [i \in 1..hs |-> 1],
                !.bonds = mol.bonds \cup {{1, GetNumAtoms(mol) + i} : i \in 1..hs}]

\* Chem.EmbedMolecule(mol, randomSeed, maxAttempts): one conformer, or none
EmbedMolecule(mol, needed, maxAttempts) ==
    [mol EXCEPT !.confs = IF needed # 0 /\ needed <= maxAttempts THEN 1 ELSE 0]

\* no_conformers with a fault: the conformer count is never looked at
no_conformers_unchecked(mol) == FALSE

\* mol.GetNumConformers() == 0
no_conformers(mol) == mol.confs = 0

embed_mol ==
    /\ pc = "idle"
    /\ \E mol0 \in ParsedMols, hs \in 0..MaxHs, seed \in Seeds,
          attempt_factor \in 1..MaxFactor,
          needed \in 0..(MaxFactor * (MaxAtoms + MaxHs) + 1) :
        LET mol1 == AddHs(mol0, hs)
            maxAttempts == attempt_factor * GetNumAtoms(mol1)
            mol  == EmbedMolecule(mol1, needed, maxAttempts)
            a    == [mol |-> mol0, seed |-> seed, attempt_factor |-> attempt_factor,
                     hs |-> hs, needed |-> needed]
            evs  == <<Ev("AddHs", hs), Ev("EmbedMolecule", maxAttempts)>>
        IN  IF no_conformers(mol)
            THEN Returns("embed_mol", a, "DockingError",
                         Msg("Generation of ligand conformation failed"), None, evs)
            ELSE Returns("embed_mol", a, "ok", NoMsg, mol, evs)
    /\ UNCHANGED logEnabled
    /\ NoConf

(***************************************************************************)
(* refine_mol_with_ff.  tk is what the toolkit answers for the molecule:   *)
(* the two parameter probes, whether MMFFSanitizeMolecule raises a         *)
(* KekulizeException, and the status each optimizer returns (0 converged,  *)
(* 1 not converged, -1 force field not set up).                            *)
(***************************************************************************)
Toolkit ==
    {tk \in [mmffHas : BOOLEAN, uffHas : BOOLEAN,
             mmffSanitize : {"ok", "KekulizeException"},
             mmffStatus : {0, 1}, uffStatus : {-1, 0, 1}] :
        (tk.uffStatus = -1) <=> ~tk.uffHas}

Raised(exc, msg, evs) == [raised |-> exc, msg |-> msg, mol |-> None, evs |-> evs]
Returned(mol, evs) == [raised |-> "none", msg |-> NoMsg, mol |-> mol, evs |-> evs]

run_mmff94_opt(mol, tk) ==
    IF tk.mmffSanitize # "ok"
    THEN Raised("KekulizeException", Msg("Can't kekulize mol"),
                <<Ev("run_mmff94_opt", "MMFF94"), Ev("MMFFSanitizeMolecule", tk.mmffSanitize)>>)
    ELSE LET evs == <<Ev("run_mmff94_opt", "MMFF94"), Ev("MMFFSanitizeMolecule", "ok"),
                      Ev("MMFFOptimizeMolecule", tk.mmffStatus)>>
         IN  IF tk.mmffStatus # 0
             THEN Raised("DockingError", Msg("MMFF optimization of ligand failed"), evs)
             ELSE Returned([mol EXCEPT !.ff = "MMFF94"], evs)

run_uff_opt(mol, tk) ==
    LET evs == <<Ev("run_uff_opt", "UFF"), Ev("UFFOptimizeMolecule", tk.uffStatus)>>
    IN  IF tk.uffStatus # 0
        THEN Raised("DockingError", Msg("UFF optimization of ligand failed"), evs)
        ELSE Returned([mol EXCEPT !.ff = "UFF"], evs)

\* refine_body with a fault: any failure of the MMFF94 run falls back to UFF
refine_body_broad(mol, tk) ==
    LET probe1 == <<Ev("MMFFHasAllMoleculeParams", tk.mmffHas)>>
        probe2 == <<Ev("UFFHasAllMoleculeParams", tk.uffHas)>>
    IN  IF tk.mmffHas
        THEN LET r1 == run_mmff94_opt(mol, tk)
             IN  IF r1.raised # "none"
                 THEN LET r2 == run_uff_opt(mol, tk)
                      IN  [r2 EXCEPT !.evs = probe1 \o r1.evs \o <<Ev("logging.info", "trying UFF")>> \o r2.evs]
                 ELSE [r1 EXCEPT !.evs = probe1 \o r1.evs]
        ELSE IF tk.uffHas
        THEN LET r2 == run_uff_opt(mol, tk)
             IN  [r2 EXCEPT !.evs = probe1 \o probe2 \o r2.evs]
        ELSE Raised("DockingError", Msg("Cannot optimize ligand: parameters not available"),
                    probe1 \o probe2)

\* refine_body with a fault: without MMFF parameters UFF is run whatever its probe says
refine_body_unprobed(mol, tk) ==
    LET probe1 == <<Ev("MMFFHasAllMoleculeParams", tk.mmffHas)>>
        probe2 == <<Ev("UFFHasAllMoleculeParams", tk.uffHas)>>
    IN  IF tk.mmffHas
        THEN LET r1 == run_mmff94_opt(mol, tk)
             IN  IF r1.raised = "KekulizeException"
                 THEN LET r2 == run_uff_opt(mol, tk)
                      IN  [r2 EXCEPT !.evs = probe1 \o r1.evs \o <<Ev("logging.info", "trying UFF")>> \o r2.evs]
                 ELSE [r1 EXCEPT !.evs = probe1 \o r1.evs]
        ELSE LET r2 == run_uff_opt(mol, tk)
             IN  [r2 EXCEPT !.evs = probe1 \o probe2 \o r2.evs]

\* the body of refine_mol_with_ff: what it raises or returns, and the calls made
refine_body(mol, tk) ==
    LET probe1 == <<Ev("MMFFHasAllMoleculeParams", tk.mmffHas)>>
        probe2 == <<Ev("UFFHasAllMoleculeParams", tk.uffHas)>>
    IN  IF tk.mmffHas
        THEN LET r1 == run_mmff94_opt(mol, tk)
             IN  IF r1.raised = "KekulizeException"
                 THEN LET r2 == run_uff_opt(mol, tk)
                      IN  [r2 EXCEPT !.evs = probe1 \o r1.evs \o <<Ev("logging.info", "trying UFF")>> \o r2.evs]
                 ELSE [r1 EXCEPT !.evs = probe1 \o r1.evs]
        ELSE IF tk.uffHas
        THEN LET r2 == run_uff_opt(mol, tk)
             IN  [r2 EXCEPT !.evs = probe1 \o probe2 \o r2.evs]
        ELSE Raised("DockingError", Msg("Cannot optimize ligand: parameters not available"),
                    probe1 \o probe2)

EmbeddedMols == {[atoms |-> m.atoms, bonds |-> m.bonds, confs |-> 1, ff |-> "none"] : m \in MolsOfSize(1)}

refine_mol_with_ff ==
    /\ pc = "idle"
    /\ \E mol \in EmbeddedMols, tk \in Toolkit :
        LET r == refine_body(mol, tk)
        IN  Returns("refine_mol_with_ff", [mol |-> mol, tk |-> tk],
                    IF r.raised = "none" THEN "ok" ELSE r.raised, r.msg, r.mol, r.evs)
    /\ UNCHANGED logEnabled
    /\ NoConf

(***************************************************************************)
(* verify_docked_ligand                                                    *)
(***************************************************************************)
\* ligand_differs with a fault: the molecules are compared as they are numbered
ligand_differs_as_numbered(ref, ligand) ==
    [atoms |-> ligand.atoms, bonds |-> ligand.bonds] # [atoms |-> ref.atoms, bonds |-> ref.bonds]

\* ligand_smiles != ref_smiles
ligand_differs(ref, ligand) ==
    LET ref_smiles    == MolToSmiles(ref)
        ligand_smiles == MolToSmiles(ligand)
    IN  ligand_smiles # ref_smiles

verify_docked_ligand ==
    /\ pc = "idle"
    /\ \E ref \in Mols, ligand \in Mols :
        LET a == [ref |-> ref, ligand |-> ligand]
        IN  IF ligand_differs(ref, ligand)
            THEN Returns("verify_docked_ligand", a, "DockingError",
                         Msg("Cannot recover original ligand"), [ref |-> ref, ligand |-> ligand], <<>>)
            ELSE Returns("verify_docked_ligand", a, "ok", NoMsg, [ref |-> ref, ligand |-> ligand], <<>>)
    /\ UNCHANGED logEnabled
    /\ NoConf

(***************************************************************************)
(* The external-process adapters.  The process answers with an exit status *)
(* and the bytes it wrote; "0xFF" is a byte that is not valid UTF-8.       *)
(***************************************************************************)
ExitCodes == {0, 1, 127}

Outputs ==
    {<<>>, <<"C">>, <<" ", "C", "C", "\n">>, <<"\n", "C", " ", "O", "\t", "\n">>,
     <<" ", "\n">>, <<"C", "0xFF">>}

Whitespace == {" ", "\t", "\n", "\r"}

\* bytes.decode('utf-8'): the text, or UnicodeDecodeError
CanDecode(bytes) == \A i \in 1..Len(bytes) : bytes[i] # "0xFF"

RECURSIVE lstrip(_)
lstrip(text) ==
    IF text # <<>> /\ Head(text) \in Whitespace THEN lstrip(Tail(text)) ELSE text

RECURSIVE rstrip(_)
rstrip(text) ==
    IF text # <<>> /\ text[Len(text)] \in Whitespace
    THEN rstrip(SubSeq(text, 1, Len(text) - 1))
    ELSE text

\* str.strip()
strip(text) == rstrip(lstrip(text))

\* subprocess.run, decode, log if verbose, check the exit status
run_checked(name, a, cmd, proc, verbose, failure, value) ==
    LET ran == <<Ev("subprocess.run", cmd)>>
    IN  IF ~CanDecode(proc.stdout)
        THEN Returns(name, a, "UnicodeDecodeError", Msg("invalid start byte"), None, ran)
        ELSE LET evs == IF verbose THEN ran \o <<Ev("logging.info", proc.stdout)>> ELSE ran
             IN  IF proc.returncode # 0
                 THEN Returns(name, a, "DockingError", Msg(failure), None, evs)
                 ELSE Returns(name, a, "ok", NoMsg, value, evs)

convert_pdbqt_to_pdb ==
    /\ pc = "idle"
    /\ \E disable_bonding \in BOOLEAN, verbose \in BOOLEAN,
          proc \in [returncode : ExitCodes, stdout : Outputs] :
        LET cmd_args == <<"obabel", "-ipdbqt", "pdbqt_file", "-opdb", "-O", "pdb_file">>
                        \o (IF disable_bonding THEN <<"-ab">> ELSE <<>>)
        IN  run_checked("convert_pdbqt_to_pdb",
                        [disable_bonding |-> disable_bonding, verbose |-> verbose, proc |-> proc],
                        cmd_args, proc, verbose, "Conversion from PDBQT to PDB failed", None)
    /\ UNCHANGED logEnabled
    /\ NoConf

convert_mol_file_to_pdbqt ==
    /\ pc = "idle"
    /\ \E verbose \in BOOLEAN, proc \in [returncode : ExitCodes, stdout : Outputs] :
        LET cmd_list == <<"obabel", "-imol", "mol_file", "-opdbqt", "-O", "pdbqt_file",
                          "--partialcharge", "gasteiger">>
        IN  run_checked("convert_mol_file_to_pdbqt", [verbose |-> verbose, proc |-> proc],
                        cmd_list, proc, verbose, "Conversion from PDB to PDBQT failed", None)
    /\ UNCHANGED logEnabled
    /\ NoConf

protonate_smiles ==
    /\ pc = "idle"
    /\ \E smiles \in Smiles, verbose \in BOOLEAN,
          proc \in [returncode : ExitCodes, stdout : Outputs, stderr : {<<>>, <<"e", "\n">>}] :
        LET cmd == <<"obabel -:", smiles, " -ismi -ocan -p7.4">>
        IN  run_checked("protonate_smiles",
                        [smiles |-> smiles, verbose |-> verbose, proc |-> proc],
                        cmd, proc, verbose, "Ligand protonation failed", strip(proc.stdout))
    /\ UNCHANGED logEnabled
    /\ NoConf

(***************************************************************************)
(* Text and the regular expressions.  A text is a sequence of characters;  *)
(* a position is the index of the next character to read.  For a piece of  *)
(* a pattern, ...Ends(s, i) is the set of positions at which a match of    *)
(* that piece starting at i can end.                                       *)
(***************************************************************************)
DigitChars == <<"0", "1", "2", "3", "4", "5", "6", "7", "8", "9">>

Digit == {DigitChars[i] : i \in 1..Len(DigitChars)}

DigitVal(c) == (CHOOSE i \in 1..Len(DigitChars) : DigitChars[i] = c) - 1

\* \w
Word == Digit \cup {"_", "a", "b", "c", "e", "s", "x", "y", "z", "A", "E", "T", "O", "M"}

\* \s
Space == {" ", "\t", "\n", "\r"}

At(s, i) == IF i \in 1..Len(s) THEN s[i] ELSE "EOF"

\* C* from i
StarEnds(s, i, C) == {j \in i..(Len(s) + 1) : \A k \in i..(j - 1) : s[k] \in C}

\* C+ from i
PlusEnds(s, i, C) == StarEnds(s, i, C) \ {i}

\* C? from i
OptEnds(s, i, C) == {i} \cup (IF At(s, i) \in C THEN {i + 1} ELSE {})

\* (e[-+]?[0-9]+)? from i
ExponentEnds(s, i) ==
    {i} \cup (IF At(s, i) = "e"
              THEN UNION {PlusEnds(s, j, Digit) : j \in OptEnds(s, i + 1, {"-", "+"})}
              ELSE {})

\* real_number_pattern = [-+]?[0-9]*\.?[0-9]+(e[-+]?[0-9]+)? from i
NumberEnds(s, i) ==
    UNION {UNION {UNION {UNION {ExponentEnds(s, p4) : p4 \in PlusEnds(s, p3, Digit)}
                          : p3 \in OptEnds(s, p2, {"."})}
                  : p2 \in StarEnds(s, p1, Digit)}
           : p1 \in OptEnds(s, i, {"-", "+"})}

RECURSIVE DigitsToInt(_)
DigitsToInt(ds) ==
    IF ds = <<>> THEN 0
    ELSE 10 * DigitsToInt(SubSeq(ds, 1, Len(ds) - 1)) + DigitVal(ds[Len(ds)])

\* a decimal floating-point value m * 10^e, m without trailing zeros
RECURSIVE Normalize(_, _)
Normalize(m, e) ==
    IF m = 0 THEN [m |-> 0, e |-> 0]
    ELSE IF m % 10 = 0 THEN Normalize(m \div 10, e + 1)
    ELSE [m |-> m, e |-> e]

Unsigned(t) == IF At(t, 1) \in {"-", "+"} THEN Tail(t) ELSE t

\* float(text) of a text that real_number_pattern matched
float(text) ==
    LET sign  == IF At(text, 1) = "-" THEN -1 ELSE 1
        body  == Unsigned(text)
        epos  == IF \E i \in 1..Len(body) : body[i] = "e"
                 THEN CHOOSE i \in 1..Len(body) : body[i] = "e"
                 ELSE Len(body) + 1
        mant  == SubSeq(body, 1, epos - 1)
        expo  == SubSeq(body, epos + 1, Len(body))
        dot   == IF \E i \in 1..Len(mant) : mant[i] = "."
                 THEN CHOOSE i \in 1..Len(mant) : mant[i] = "."
                 ELSE Len(mant) + 1
        whole == SubSeq(mant, 1, dot - 1)
        frac  == SubSeq(mant, dot + 1, Len(mant))
        esign == IF At(expo, 1) = "-" THEN -1 ELSE 1
        e     == esign * DigitsToInt(Unsigned(expo))
    IN  Normalize(sign * DigitsToInt(whole \o frac), e - Len(frac))

(***************************************************************************)
(* parse_search_box_conf.  The file is read line by line; a line is        *)
(* written either as `key = value` (a key, white space, a number written   *)
(* in some way, white space) or as something else, and every line but      *)
(* possibly the last ends with a newline.                                  *)
(***************************************************************************)
MaxLines == 7

RequiredKeys == 6

Keys ==
    {<<"c", "_", "x">>, <<"c", "_", "y">>, <<"c", "_", "z">>,
     <<"s", "_", "x">>, <<"s", "_", "y">>, <<"s", "_", "z">>, <<"e", "1">>}

\* ways of writing `= value` after the key, with the number each one means
Forms ==
    {[pre |-> <<" ">>, num |-> <<"1", ".", "0">>, post |-> <<" ">>, trail |-> <<>>,
      val |-> [m |-> 1, e |-> 0]],
     [pre |-> <<>>, num |-> <<"1">>, post |-> <<>>, trail |-> <<" ">>,
      val |-> [m |-> 1, e |-> 0]],
     [pre |-> <<" ">>, num |-> <<"2", "0", ".", "0">>, post |-> <<" ">>, trail |-> <<>>,
      val |-> [m |-> 2, e |-> 1]],
     [pre |-> <<"\t">>, num |-> <<"2", "e", "1">>, post |-> <<" ", " ">>, trail |-> <<>>,
      val |-> [m |-> 2, e |-> 1]],
     [pre |-> <<" ">>, num |-> <<"+", ".", "2", "e", "2">>, post |-> <<" ">>, trail |-> <<"\t">>,
      val |-> [m |-> 2, e |-> 1]]}

\* lines that are not written as `key = value`
OtherLines ==
    {<<>>, <<"#", " ", "b", "o", "x">>, <<"c", "_", "x", " ", "1", ".", "0">>,
     <<"c", "_", "x", " ", "=", " ", "a", "b", "c">>, <<"=", " ", "1", ".", "0">>,
     <<"c", "_", "x", " ", "=">>}

ConfLines ==
    {[kv |-> TRUE, key |-> k, form |-> f] : k \in Keys, f \in Forms}
    \cup {[kv |-> FALSE, text |-> t] : t \in OtherLines}

\* the characters of a line, with its newline if it has one
LineText(l, nl) ==
    (IF l.kv THEN l.key \o l.form.pre \o <<"=">> \o l.form.post \o l.form.num \o l.form.trail
     ELSE l.text)
    \o (IF nl THEN <<"\n">> ELSE <<>>)

\* $ : at the end of the text, or before its last newline
AtEnd(s, p) == p = Len(s) + 1 \/ (p = Len(s) /\ s[p] = "\n")

\* conf_re.match(line): the groups of every way the pattern matches from the start
\* (at most one way: no two pieces of the pattern can share a character)
conf_re(s) ==
    UNION {UNION {IF At(s, k2) # "=" THEN {} ELSE
      UNION {UNION {UNION {IF At(s, k5) = "\n" /\ AtEnd(s, k5 + 1)
                           THEN {[key |-> SubSeq(s, 1, k1 - 1), value |-> SubSeq(s, k3, k4 - 1)]}
                           ELSE {}
                           : k5 \in StarEnds(s, k4, Space)}
                    : k4 \in NumberEnds(s, k3)}
             : k3 \in StarEnds(s, k2 + 1, Space)}
      : k2 \in StarEnds(s, k1, Space)}
    : k1 \in PlusEnds(s, 1, Word)}

\* conf_re.match of every line the file can hold, worked out once
Matched ==
    {[line |-> x[1], nl |-> x[2], ms |-> conf_re(LineText(x[1], x[2]))] :
        x \in {y \in ConfLines \X BOOLEAN : LineText(y[1], y[2]) # <<>>}}

\* d[key] = value
DictSet(dict, key, value) == (key :> value) @@ dict

parse_search_box_conf ==
    /\ pc = "idle"
    /\ pc' = "conf_loop"
    /\ op' = "parse_search_box_conf"
    /\ arg' = [lines |-> 0, eof |-> FALSE]
    /\ outcome' = "running"
    /\ d' = EmptyDict
    /\ want' = EmptyDict
    /\ matched' = NoneMatched
    /\ UNCHANGED <<logEnabled, message, result, events>>

\* one turn of `for line in f.readlines()`
conf_line ==
    /\ pc = "conf_loop"
    /\ ~arg.eof
    /\ arg.lines < MaxLines
    /\ \E read \in Matched :
        LET l  == read.line
            ms == read.ms
            m  == CHOOSE x \in ms : TRUE
        IN  /\ arg' = [lines |-> arg.lines + 1, eof |-> ~read.nl]
            /\ d' = IF ms # {} THEN DictSet(d, m.key, float(m.value)) ELSE d
            /\ matched' = IF ms # {}
                          THEN [keys |-> matched.keys \cup {m.key},
                                repeated |-> matched.repeated \/ m.key \in matched.keys]
                          ELSE matched
            /\ want' = IF l.kv THEN (l.key :> l.form.val) @@ want ELSE want
    /\ UNCHANGED <<logEnabled, pc, op, outcome, message, result, events>>

\* enough_keys with a fault: at least 6 entries pass
enough_keys_at_least(dict) == Cardinality(DOMAIN dict) >= RequiredKeys

\* len(d) == 6
enough_keys(dict) == Cardinality(DOMAIN dict) = RequiredKeys

\* `assert len(d) == 6` and `return d`
conf_return ==
    /\ pc = "conf_loop"
    /\ pc' = "returned"
    /\ IF enough_keys(d)
       THEN outcome' = "ok" /\ result' = d
       ELSE outcome' = "AssertionError" /\ result' = None
    /\ UNCHANGED <<logEnabled, op, arg, message, events, d, want, matched>>

(***************************************************************************)
(* parse_scores_from_output.  The output file is some lines, a result line *)
(* being the marker, white space, the score and the rest of the pose's     *)
(* numbers.  The marker text is one element of the text: the pattern       *)
(* matches it letter by letter and it overlaps neither itself nor a number.*)
(***************************************************************************)
MaxPoses == 3

Marker == "REMARK VINA RESULT:"

ScoreLines ==
    {[result |-> TRUE, val |-> [m |-> -72, e |-> -1],
      text |-> <<Marker, " ", " ", "-", "7", ".", "2", " ", " ", "0", ".", "0">>],
     [result |-> TRUE, val |-> [m |-> 1, e |-> 1],
      text |-> <<Marker, "\t", "1", "e", "1", " ", "x">>],
     [result |-> TRUE, val |-> [m |-> -68, e |-> -1],
      text |-> <<Marker, "-", "6", ".", "8">>],
     [result |-> FALSE, text |-> <<Marker>>],
     [result |-> FALSE, text |-> <<Marker, " ", "x", " ", "5">>],
     [result |-> FALSE, text |-> <<"-", "6", ".", "8", " ", "0">>],
     [result |-> FALSE, text |-> <<"A", "T", "O", "M", " ", "1">>]}

\* f.read(): the lines, each but possibly the last ended by a newline
RECURSIVE Content(_, _)
Content(lines, nl) ==
    IF lines = <<>> THEN <<>>
    ELSE IF Len(lines) = 1 THEN lines[1].text \o (IF nl THEN <<"\n">> ELSE <<>>)
    ELSE lines[1].text \o <<"\n">> \o Content(Tail(lines), nl)

\* score_re matched at position i: where the score group starts and where it can end
score_re(s, i) ==
    IF At(s, i) # Marker THEN {}
    ELSE UNION {{[from |-> k, to |-> e] : e \in NumberEnds(s, k)}
                : k \in StarEnds(s, i + 1, Space)}

\* score_re.finditer(content) from pos on: the leftmost match, then on from its end.
\* The quantifiers are greedy, and of the ways the number can end the engine's
\* first is the longest.
RECURSIVE finditer(_, _)
finditer(s, pos) ==
    IF pos > Len(s) THEN <<>>
    ELSE LET ms == score_re(s, pos)
         IN  IF ms = {} THEN finditer(s, pos + 1)
             ELSE LET m == CHOOSE x \in ms : \A y \in ms : y.to <= x.to
                  IN  <<SubSeq(s, m.from, m.to - 1)>> \o finditer(s, m.to)

parse_scores_from_output ==
    /\ pc = "idle"
    /\ \E n \in 0..MaxPoses, nl \in BOOLEAN :
        \E lines \in [1..n -> ScoreLines] :
            LET content == Content(lines, nl)
                found   == finditer(content, 1)
            IN  /\ n = 0 => nl
                /\ Returns("parse_scores_from_output", [lines |-> lines, nl |-> nl], "ok",
                           NoMsg, [i \in 1..Len(found) |-> float(found[i])], <<>>)
    /\ UNCHANGED logEnabled
    /\ NoConf

(***************************************************************************)
(* The caller takes what the call returned or raised and goes on; only the *)
(* toolkit's log channels outlive the call.                                *)
(***************************************************************************)
Resume ==
    /\ pc = "returned"
    /\ pc' = "idle"
    /\ op' = "none"
    /\ arg' = None
    /\ outcome' = "none"
    /\ message' = NoMsg
    /\ result' = None
    /\ events' = <<>>
    /\ UNCHANGED logEnabled
    /\ NoConf

Next ==
    \/ check_mol
    \/ embed_mol
    \/ refine_mol_with_ff
    \/ verify_docked_ligand
    \/ convert_pdbqt_to_pdb
    \/ convert_mol_file_to_pdbqt
    \/ protonate_smiles
    \/ Resume

Spec == Init /\ [][Next]_vars

NextLog ==
    \/ smiles_to_mol
    \/ sanitize_mol
    \/ assign_bond_orders
    \/ Resume

SpecLog == Init /\ [][NextLog]_vars

NextParsers ==
    \/ parse_scores_from_output
    \/ parse_search_box_conf
    \/ conf_line
    \/ conf_return
    \/ Resume

SpecParsers == Init /\ [][NextParsers]_vars

(***************************************************************************)
(* The claims.                                                             *)
(***************************************************************************)
Done(name) == pc = "returned" /\ op = name

Called(call) == \E i \in 1..Len(events) : events[i].call = call

\* C1: check_mol returns without error exactly when the molecule has no atom of
\* atomic number 1 and exactly one fragment; otherwise it raises DockingError, and
\* when the fragment count is what is wrong the message carries that count.
C1_CheckMolRejectsHydrogens ==
    Done("check_mol") =>
        LET no_h  == \A i \in 1..GetNumAtoms(arg.mol) : arg.mol.atoms[i] # 1
            frags == Cardinality(GetMolFrags(arg.mol))
        IN  /\ outcome \in {"ok", "DockingError"}
            /\ outcome = "ok" <=> (no_h /\ frags = 1)
            /\ (no_h /\ frags # 1) => ("count" \in DOMAIN message /\ message.count = frags)

LogChannelOf(name) ==
    CASE name = "smiles_to_mol"      -> "rdApp.error"
      [] name = "sanitize_mol"       -> "rdApp.info"
      [] name = "assign_bond_orders" -> "rdApp.warning"

\* C2: after smiles_to_mol, sanitize_mol or assign_bond_orders with verbose false,
\* returned or raised, the log channel the call switched off is on again; so
\* between calls every log channel is enabled.
C2_LogChannelsRestored ==
    /\ (pc = "returned" /\ op \in {"smiles_to_mol", "sanitize_mol", "assign_bond_orders"}
        /\ ~arg.verbose) => logEnabled[LogChannelOf(op)]
    /\ pc = "idle" => \A c \in Channels : logEnabled[c]

KekulizeRaised ==
    \E i \in 1..Len(events) :
        events[i].call = "MMFFSanitizeMolecule" /\ events[i].ret = "KekulizeException"

MMFFStatusNonzero ==
    \E i \in 1..Len(events) : events[i].call = "MMFFOptimizeMolecule" /\ events[i].ret # 0

\* C3: in refine_mol_with_ff, run_uff_opt runs only if the MMFF parameters are
\* available and the MMFF94 run raised a kekulization error, or the MMFF parameters
\* are not available; a nonzero MMFF94 optimizer status is raised to the caller as
\* DockingError and UFF is not tried.
C3_UffOnlyAsFallback ==
    Done("refine_mol_with_ff") =>
        /\ Called("run_uff_opt") =>
              (arg.tk.mmffHas /\ KekulizeRaised) \/ ~arg.tk.mmffHas
        /\ MMFFStatusNonzero =>
              /\ outcome = "DockingError"
              /\ message = Msg("MMFF optimization of ligand failed")
              /\ ~Called("run_uff_opt")

C3_Witness ==
    /\ Done("refine_mol_with_ff")
    /\ arg.tk.mmffHas /\ KekulizeRaised /\ Called("run_uff_opt")

\* C4: parse_search_box_conf returns the mapping exactly when the lines the pattern
\* matched have 6 distinct keys; with any other number it ends in AssertionError,
\* never in DockingError, and never returns a mapping of another size.
C4_SixKeysOrAssertion ==
    Done("parse_search_box_conf") =>
        /\ outcome \in {"ok", "AssertionError"}
        /\ outcome = "ok" <=> Cardinality(matched.keys) = 6
        /\ outcome = "ok" => (DOMAIN result = matched.keys /\ Cardinality(DOMAIN result) = 6)

C4_Witness ==
    /\ Done("parse_search_box_conf")
    /\ outcome = "AssertionError"
    /\ Cardinality(matched.keys) > 6

\* C5: every line written as `<identifier> = <float>`, ended by a newline or by the
\* end of the file, is recognised and maps its identifier to its value, and only
\* other lines are skipped; a file of 6 such lines with 6 keys returns that mapping.
C5_EveryKeyValueLineRecognised ==
    op = "parse_search_box_conf" =>
        /\ d = want
        /\ (pc = "returned" /\ Cardinality(DOMAIN want) = 6) => (outcome = "ok" /\ result = want)

\* the scores the result lines of a file spell out, in file order
RECURSIVE ScoresWritten(_)
ScoresWritten(lines) ==
    IF lines = <<>> THEN <<>>
    ELSE (IF Head(lines).result THEN <<Head(lines).val>> ELSE <<>>) \o ScoresWritten(Tail(lines))

\* C6: parse_scores_from_output returns one score for each line that has the marker
\* followed by a number, that number, in file order; with no such line the empty
\* sequence, and no error.
C6_OneScorePerResultLine ==
    Done("parse_scores_from_output") =>
        /\ outcome = "ok"
        /\ result = ScoresWritten(arg.lines)

Adapters == {"convert_pdbqt_to_pdb", "convert_mol_file_to_pdbqt", "protonate_smiles"}

\* C7: an external-process adapter raises DockingError exactly when the exit status
\* is nonzero, whatever the output; on status zero the converters return and
\* protonate_smiles returns the stripped standard output; the output is logged
\* only when verbose.
C7_ExitStatusDecides ==
    (pc = "returned" /\ op \in Adapters) =>
        /\ outcome = "DockingError" <=> arg.proc.returncode # 0
        /\ arg.proc.returncode = 0 => outcome = "ok"
        /\ (arg.proc.returncode = 0 /\ op = "protonate_smiles") =>
              result = strip(arg.proc.stdout)
        /\ Called("logging.info") => arg.verbose

\* C8: embed_mol returns a molecule with at least one conformer or raises
\* DockingError; it raises exactly when no attempt within attempt_factor times the
\* atom count produced a conformer.
C8_EmbedReturnsConformer ==
    Done("embed_mol") =>
        LET cap == arg.attempt_factor * (GetNumAtoms(arg.mol) + arg.hs)
        IN  /\ outcome \in {"ok", "DockingError"}
            /\ outcome = "ok" => result.confs >= 1
            /\ outcome = "DockingError" <=> ~(arg.needed \in 1..cap)

C8_Witness ==
    /\ Done("embed_mol")
    /\ outcome = "DockingError"
    /\ arg.needed > arg.attempt_factor * (GetNumAtoms(arg.mol) + arg.hs)

\* the same molecular graph, whatever the atom numbering
SameGraph(a, b) ==
    /\ GetNumAtoms(a) = GetNumAtoms(b)
    /\ \E p \in Renumberings(GetNumAtoms(a)) :
          Renumber(a, p).atoms = b.atoms /\ Renumber(a, p).bonds = b.bonds

\* C9: verify_docked_ligand raises DockingError exactly when the two molecules have
\* different canonical SMILES, that is, are not the same graph; not for a molecule
\* and its copy; and it changes neither molecule.
C9_VerifyComparesCanonical ==
    Done("verify_docked_ligand") =>
        /\ outcome \in {"ok", "DockingError"}
        /\ outcome = "DockingError" <=> ~SameGraph(arg.ref, arg.ligand)
        /\ arg.ligand = arg.ref => outcome = "ok"
        /\ result = [ref |-> arg.ref, ligand |-> arg.ligand]

C9_Witness ==
    /\ Done("verify_docked_ligand")
    /\ outcome = "ok"
    /\ arg.ligand # arg.ref
    /\ arg.ligand.bonds # {}

ProbedTrueBefore(probe, i) ==
    \E j \in 1..(i - 1) : events[j].call = probe /\ events[j].ret = TRUE

NoOptimizerRun == ~Called("run_mmff94_opt") /\ ~Called("run_uff_opt")

\* C10 as stated: each optimizer runs only after its own parameter probe returned
\* true, and with neither probe true DockingError is raised and no optimizer runs.
C10_EachOptimizerProbedFirst ==
    Done("refine_mol_with_ff") =>
        /\ \A i \in 1..Len(events) :
              /\ events[i].call = "run_mmff94_opt" =>
                    ProbedTrueBefore("MMFFHasAllMoleculeParams", i)
              /\ events[i].call = "run_uff_opt" =>
                    ProbedTrueBefore("UFFHasAllMoleculeParams", i)
        /\ (~arg.tk.mmffHas /\ ~arg.tk.uffHas) => (outcome = "DockingError" /\ NoOptimizerRun)

KekulizeRaisedBefore(i) ==
    \E j \in 1..(i - 1) :
        events[j].call = "MMFFSanitizeMolecule" /\ events[j].ret = "KekulizeException"

\* C10 amended: MMFF94 runs only after its probe returned true; UFF runs only after
\* its own probe returned true or, unprobed, after the MMFF94 run raised a
\* kekulization error; with neither probe true DockingError is raised and no
\* optimizer runs.
C10_ProbedOrFallback ==
    Done("refine_mol_with_ff") =>
        /\ \A i \in 1..Len(events) :
              /\ events[i].call = "run_mmff94_opt" =>
                    ProbedTrueBefore("MMFFHasAllMoleculeParams", i)
              /\ events[i].call = "run_uff_opt" =>
                    \/ ProbedTrueBefore("UFFHasAllMoleculeParams", i)
                    \/ (ProbedTrueBefore("MMFFHasAllMoleculeParams", i) /\ KekulizeRaisedBefore(i)
                        /\ ~Called("UFFHasAllMoleculeParams"))
        /\ (~arg.tk.mmffHas /\ ~arg.tk.uffHas) => (outcome = "DockingError" /\ NoOptimizerRun)

C10_Witness ==
    /\ Done("refine_mol_with_ff")
    /\ Called("run_uff_opt")
    /\ ~Called("UFFHasAllMoleculeParams")
    /\ ~arg.tk.uffHas

====
